---- MODULE Spec2Model ----
(***************************************************************************)
(* Volatility-surface pipeline of an21p/volatility-surface-azure.          *)
(*                                                                         *)
(* visualiser.run: quotes -> implied-vol grid (solve) -> per-row repair    *)
(* (forward fill, backward fill, median) -> variance surface -> dense      *)
(* sample of n_points dates.                                               *)
(*                                                                         *)
(* Units.  Dates are day serials, 1 = 2025-01-01.  Prices are integer      *)
(* ticks; the mid price 0.5*(bid+ask) is kept doubled (half ticks).        *)
(* Volatilities are integers: one solver step is VolUnit, a power of two   *)
(* large enough that every median the repair can take (the mean of two     *)
(* cells, possibly of earlier medians) is still an integer.  NaN and None  *)
(* are negative sentinels; a solved volatility is always positive.         *)
(*                                                                         *)
(* volatility_surface.get_option_data with utils: the filtered chain is    *)
(* written to a blob as CSV text and read back.  Floats of the chain are   *)
(* integers in thousandths; their CSV text is the digits of the integer    *)
(* part and of the fraction.                                               *)
(***************************************************************************)
EXTENDS Integers, Sequences, FiniteSets, TLC

VARIABLES pc, err, quotes, n_points, ql_today,
          unique_expiries, unique_strikes, solved_matrix, vol_matrix, row_i,
          surface, date_range, n_queries,
          feed, clock, blobs, responses,
          variant, container, container0, ticker_i, events

runVars == <<pc, err, quotes, n_points, ql_today,
             unique_expiries, unique_strikes, solved_matrix, vol_matrix, row_i,
             surface, date_range, n_queries>>

\* The option-data service: what the market feed returns, the day, the blob
\* container and the answers given so far.
\* (clock: the serial of datetime.now() and pd.Timestamp.today().)
storeVars == <<feed, clock, blobs, responses>>

\* The timer-triggered download: which of the two trigger modules runs, the
\* blob container by blob name, the container as the run found it, the
\* position in the ticker list and what the run did for each ticker so far.
timerVars == <<variant, container, container0, ticker_i, events>>

vars == <<runVars, storeVars, timerVars>>

---------------------------------------------------------------------------
\* Bounds of the model.

MaxQuotes == 3
MaxFailQuotes == 4
MaxSampleQuotes == 1
MaxPoints == 6

\* Program constants.

NaN == -1
None == -2
NPoints == 50
VolMinSteps == 1
VolMaxSteps == 9

\* Input domains.

ExpiryDates == {171, 199, 227}
Strikes == {100, 102, 104}
Offers == { <<0, 0>>, <<3, 5>> }
ValuationDates == {152, 171, 227}

VolUnit == 2 ^ Cardinality(ExpiryDates)

\* Calls on every (expiry, strike) at an unpriceable and at a priceable mid,
\* a dearer call and a put (a second price for one cell), and a call priced
\* above the price at vol_max.
QuoteKinds ==
    { [expiry |-> e, strike |-> k, type |-> "C", bid |-> o[1], ask |-> o[2],
       spot |-> 103] : e \in ExpiryDates, k \in Strikes, o \in Offers }
    \cup { [expiry |-> 171, strike |-> 100, type |-> "C", bid |-> 5, ask |-> 7,
            spot |-> 103],
           [expiry |-> 171, strike |-> 100, type |-> "P", bid |-> 1, ask |-> 2,
            spot |-> 103],
           [expiry |-> 199, strike |-> 104, type |-> "C", bid |-> 5, ask |-> 7,
            spot |-> 103] }

SeqsUpTo(S, n) == UNION { [1..m -> S] : m \in 1..n }

---------------------------------------------------------------------------
\* Helpers on sequences.

Max(a, b) == IF a >= b THEN a ELSE b

MinOf(S) == CHOOSE x \in S : \A y \in S : x <= y

RECURSIVE SortedSeq(_)
SortedSeq(S) ==
    IF S = {} THEN << >> ELSE <<MinOf(S)>> \o SortedSeq(S \ {MinOf(S)})

RECURSIVE Flatten(_)
Flatten(m) == IF m = << >> THEN << >> ELSE Head(m) \o Flatten(Tail(m))

RECURSIVE InsertSorted(_, _)
InsertSorted(s, x) ==
    IF s = << >> THEN <<x>>
    ELSE IF x <= Head(s) THEN <<x>> \o s
    ELSE <<Head(s)>> \o InsertSorted(Tail(s), x)

RECURSIVE SortValues(_)
SortValues(s) ==
    IF s = << >> THEN << >> ELSE InsertSorted(SortValues(Tail(s)), Head(s))

IsNaN(x) == x = NaN

---------------------------------------------------------------------------
\* The solver.

\* option.impliedVolatility on the process built from the first spot: the
\* price is increasing in the volatility (one half tick of time value per
\* solver step); a target outside the prices of [vol_min, vol_max] has no
\* root in the bracket and raises RuntimeError.
ImpliedVolatility(option_type, strike, spot, mid2) ==
    LET intrinsic == IF option_type = "C" THEN Max(spot - strike, 0)
                                           ELSE Max(strike - spot, 0)
        steps == mid2 - 2 * intrinsic
    IN  IF steps < VolMinSteps \/ steps > VolMaxSteps
        THEN [raised |-> TRUE, vol |-> 0]
        ELSE [raised |-> FALSE, vol |-> steps * VolUnit]

\* Lines 27-33: the mid price (doubled), the solver, None on RuntimeError.
implied_vol_mid(option_type, strike, spot, bid, ask) ==
    LET r == ImpliedVolatility(option_type, strike, spot, bid + ask)
    IN  IF r.raised THEN None ELSE r.vol

\* numpy's conversion on vol_matrix[i, j] = value: None is stored as nan.
ToFloat(x) == IF x = None THEN NaN ELSE x

Matches(data, exp, K) ==
    { k \in 1..Len(data) : data[k].expiry = exp /\ data[k].strike = K }

MaxOf(S) == CHOOSE x \in S : \A y \in S : x >= y

\* Mutant of iloc0: the last matching row instead of the first.
iloc0_last(S) == MaxOf(S)

\* row[...].iloc[0]: the first matching row in input order.
iloc0(S) == MinOf(S)

SolveCell(data, exp, K) ==
    LET rows == Matches(data, exp, K)
    IN  IF rows # {}
        THEN LET q == data[iloc0(rows)]
                 option_type == IF q.type = "C" THEN "C" ELSE "P"
             IN  ToFloat(implied_vol_mid(option_type, q.strike, data[1].spot,
                                         q.bid, q.ask))
        ELSE NaN

UniqueExpiries(data) == SortedSeq({ data[k].expiry : k \in 1..Len(data) })
UniqueStrikes(data) == SortedSeq({ data[k].strike : k \in 1..Len(data) })

SolveGrid(data) ==
    LET es == UniqueExpiries(data)
        ks == UniqueStrikes(data)
    IN  [i \in 1..Len(es) |-> [j \in 1..Len(ks) |-> SolveCell(data, es[i], ks[j])]]

---------------------------------------------------------------------------
\* The repair of one row.

RECURSIVE FFillFrom(_, _)
FFillFrom(row, j) ==
    IF j > Len(row) THEN row
    ELSE FFillFrom(IF IsNaN(row[j]) /\ ~IsNaN(row[j - 1])
                   THEN [row EXCEPT ![j] = row[j - 1]] ELSE row, j + 1)

FFill(row) == FFillFrom(row, 2)

RECURSIVE BFillFrom(_, _)
BFillFrom(row, j) ==
    IF j < 1 THEN row
    ELSE BFillFrom(IF IsNaN(row[j]) /\ ~IsNaN(row[j + 1])
                   THEN [row EXCEPT ![j] = row[j + 1]] ELSE row, j - 1)

\* Mutant of BFill: the backward loop copies row[j + 1] without testing
\* row[j].
BFill_overwriting(row) ==
    [j \in 1..Len(row) |->
        LET after == { k \in j..Len(row) : ~IsNaN(row[k]) }
        IN  IF after = {} THEN NaN ELSE row[MaxOf(after)]]

BFill(row) == BFillFrom(row, Len(row) - 1)

NonNaN(s) == SelectSeq(s, LAMBDA x : ~IsNaN(x))

MedianOf(values) ==
    LET s == SortValues(values)
        n == Len(s)
    IN  IF n = 0 THEN NaN
        ELSE IF n % 2 = 1 THEN s[(n + 1) \div 2]
        ELSE (s[n \div 2] + s[n \div 2 + 1]) \div 2

\* Mutant of NanMedian: np.median, which is nan as soon as one cell is nan.
NanMedian_propagating(m) ==
    IF \E k \in 1..Len(Flatten(m)) : IsNaN(Flatten(m)[k])
    THEN NaN ELSE MedianOf(Flatten(m))

\* np.nanmedian of the whole matrix; nan when every cell is nan.
NanMedian(m) == MedianOf(NonNaN(Flatten(m)))

FillRemaining(row, med) ==
    [j \in 1..Len(row) |-> IF IsNaN(row[j]) THEN med ELSE row[j]]

\* Mutant of RepairRowOf: the backward fill runs before the forward fill.
RepairRowOf_backward_first(m, i) ==
    IF \E j \in 1..Len(m[i]) : IsNaN(m[i][j])
    THEN LET filled == FFill(BFill(m[i]))
             view == [m EXCEPT ![i] = filled]
         IN  [m EXCEPT ![i] = FillRemaining(filled, NanMedian(view))]
    ELSE m

\* Mutant of RepairRowOf: the row is repaired whether or not it holds a NaN,
\* and the forward loop copies row[j - 1] without testing row[j].
RepairRowOf_overwriting(m, i) ==
    LET row == m[i]
        copied == [j \in 1..Len(row) |->
                      LET before == { k \in 1..j : ~IsNaN(row[k]) }
                      IN  IF before = {} THEN NaN ELSE row[MinOf(before)]]
        filled == BFill(copied)
        view == [m EXCEPT ![i] = filled]
    IN  [m EXCEPT ![i] = FillRemaining(filled, NanMedian(view))]

\* Lines 116-128 for row i.  row is a view of vol_matrix, so the median is
\* taken over the matrix with row i already forward- and backward-filled.
RepairRowOf(m, i) ==
    IF \E j \in 1..Len(m[i]) : IsNaN(m[i][j])
    THEN LET filled == BFill(FFill(m[i]))
             view == [m EXCEPT ![i] = filled]
         IN  [m EXCEPT ![i] = FillRemaining(filled, NanMedian(view))]
    ELSE m

RECURSIVE RepairFrom(_, _)
RepairFrom(m, i) ==
    IF i > Len(m) THEN m ELSE RepairFrom(RepairRowOf(m, i), i + 1)

\* The whole build: solve step followed by the repair of every row.
Build(data) == RepairFrom(SolveGrid(data), 1)

---------------------------------------------------------------------------
\* The sampler.

\* Python's int(): truncation toward zero.
Trunc(num, den) ==
    IF num >= 0 THEN num \div den ELSE -((-num) \div den)

\* Mutant of DateRange: the step divides by n_points instead of n_points - 1.
DateRange_div_n(n, today, last) ==
    [k \in 1..n |-> today + Trunc((k - 1) * (last - today), n)]

\* Lines 150-151.
DateRange(n, today, last) ==
    [k \in 1..n |-> today + Trunc((k - 1) * (last - today), n - 1)]

---------------------------------------------------------------------------
\* visualiser.run as a state machine.

InitCommon ==
    /\ pc = "solve"
    /\ err = "none"
    /\ unique_expiries = << >>
    /\ unique_strikes = << >>
    /\ solved_matrix = << >>
    /\ vol_matrix = << >>
    /\ row_i = 0
    /\ surface = << >>
    /\ date_range = << >>
    /\ n_queries = 0
    /\ feed = [raises |-> FALSE, rows |-> << >>]
    /\ clock = 152
    /\ blobs = [raw |-> << >>, filtered |-> << >>]
    /\ responses = << >>
    /\ variant = "downloader_trigger"
    /\ container = << >>
    /\ container0 = << >>
    /\ ticker_i = 0
    /\ events = << >>

\* run() as written: n_points = 50.
Init ==
    /\ quotes \in SeqsUpTo(QuoteKinds, MaxQuotes)
    /\ n_points = NPoints
    /\ ql_today = 152
    /\ InitCommon

\* One more quote than Init: a quote that fails, alone at its strike, beside
\* a row that is all NaN and two solved cells.
InitSolverFailure ==
    /\ quotes \in SeqsUpTo(QuoteKinds, MaxFailQuotes)
    /\ n_points = NPoints
    /\ ql_today = 152
    /\ InitCommon

\* The sampler on its own inputs: n_points, the local of line 37, ranges
\* over small values as well as 50, and the valuation date over days
\* before, on and after the expiries.
InitSampler ==
    /\ quotes \in SeqsUpTo(QuoteKinds, MaxSampleQuotes)
    /\ n_points \in (0..MaxPoints) \cup {NPoints}
    /\ ql_today \in ValuationDates
    /\ InitCommon

\* Lines 83-112.
Solve ==
    /\ pc = "solve"
    /\ unique_expiries' = UniqueExpiries(quotes)
    /\ unique_strikes' = UniqueStrikes(quotes)
    /\ solved_matrix' = SolveGrid(quotes)
    /\ vol_matrix' = SolveGrid(quotes)
    /\ row_i' = 1
    /\ pc' = "repair"
    /\ UNCHANGED <<err, quotes, n_points, ql_today, surface, date_range, n_queries>>
    /\ UNCHANGED <<storeVars, timerVars>>

\* Lines 115-128, one iteration of the loop over the rows.
RepairRow ==
    /\ pc = "repair"
    /\ row_i <= Len(vol_matrix)
    /\ vol_matrix' = RepairRowOf(vol_matrix, row_i)
    /\ row_i' = row_i + 1
    /\ UNCHANGED <<pc, err, quotes, n_points, ql_today, unique_expiries,
                   unique_strikes, solved_matrix, surface, date_range, n_queries>>
    /\ UNCHANGED <<storeVars, timerVars>>

\* The loop over the rows ends; line 130 follows unconditionally.
RepairDone ==
    /\ pc = "repair"
    /\ row_i > Len(vol_matrix)
    /\ pc' = "matrix"
    /\ UNCHANGED <<err, quotes, n_points, ql_today, unique_expiries, unique_strikes,
                   solved_matrix, vol_matrix, row_i, surface, date_range, n_queries>>
    /\ UNCHANGED <<storeVars, timerVars>>

\* Lines 130-146.  The matrix is handed to BlackVarianceSurface as it is; the
\* library may reject it (RuntimeError) by checks of its own.
BuildSurface ==
    /\ pc = "matrix"
    /\ \E accepted \in BOOLEAN :
          IF accepted
          THEN /\ surface' = vol_matrix
               /\ pc' = "sample"
               /\ err' = err
          ELSE /\ surface' = surface
               /\ pc' = "error"
               /\ err' = "RuntimeError"
    /\ UNCHANGED <<quotes, n_points, ql_today, unique_expiries, unique_strikes,
                   solved_matrix, vol_matrix, row_i, date_range, n_queries>>
    /\ UNCHANGED <<storeVars, timerVars>>

\* Lines 149-159.  With n_points = 1 the first date divides by zero; with
\* n_points = 0 the comprehension is empty and nothing is evaluated.
Sample ==
    /\ pc = "sample"
    /\ LET last_expiry == unique_expiries[Len(unique_expiries)]
       IN  IF n_points = 1
           THEN /\ pc' = "error"
                /\ err' = "ZeroDivisionError"
                /\ UNCHANGED <<date_range, n_queries>>
           ELSE /\ date_range' = DateRange(n_points, ql_today, last_expiry)
                /\ n_queries' = n_points * Len(unique_strikes)
                /\ pc' = "done"
                /\ err' = err
    /\ UNCHANGED <<quotes, n_points, ql_today, unique_expiries, unique_strikes,
                   solved_matrix, vol_matrix, row_i, surface>>
    /\ UNCHANGED <<storeVars, timerVars>>

Next ==
    \/ Solve
    \/ RepairRow
    \/ RepairDone
    \/ BuildSurface
    \/ Sample

Spec == Init /\ [][Next]_vars

SpecSolverFailure == InitSolverFailure /\ [][Next]_vars

SpecSampler == InitSampler /\ [][Next]_vars

---------------------------------------------------------------------------
\* The calendar of 2025 (serial 1 = Wednesday 2025-01-01).

DaysInMonth == <<31, 28, 31, 30, 31, 30, 31, 31, 30, 31, 30, 31>>

RECURSIVE MonthStart(_)
MonthStart(m) == IF m = 1 THEN 0 ELSE MonthStart(m - 1) + DaysInMonth[m - 1]

SerialOf(m, d) == MonthStart(m) + d

MonthOf(s) ==
    CHOOSE m \in 1..12 : MonthStart(m) < s /\ s <= MonthStart(m) + DaysInMonth[m]

DayOf(s) == s - MonthStart(MonthOf(s))

\* datetime.weekday(): Monday is 0, Friday is 4.
Weekday(s) == (s + 1) % 7

\* utils.is_third_friday: the Fridays of the month from its calendar, the
\* third of them.
is_third_friday(dt) ==
    IF Weekday(dt) # 4 THEN FALSE
    ELSE LET month == MonthOf(dt)
             fridays == SortedSeq({ d \in 1..DaysInMonth[month] :
                                      Weekday(SerialOf(month, d)) = 4 })
         IN  Len(fridays) >= 3 /\ DayOf(dt) = fridays[3]

---------------------------------------------------------------------------
\* CSV text.

RECURSIVE Digits(_)
Digits(n) == IF n < 10 THEN <<n>> ELSE Digits(n \div 10) \o <<n % 10>>

RECURSIVE FromDigits(_)
FromDigits(d) ==
    IF Len(d) = 0 THEN 0
    ELSE FromDigits(SubSeq(d, 1, Len(d) - 1)) * 10 + d[Len(d)]

RECURSIVE StripZeros(_)
StripZeros(d) ==
    IF Len(d) > 1 /\ d[Len(d)] = 0 THEN StripZeros(SubSeq(d, 1, Len(d) - 1)) ELSE d

\* to_csv of a float: its shortest text, "100.0", "103.25".
FormatFloat(x) ==
    [int |-> Digits(x \div 1000),
     frac |-> StripZeros(<<(x % 1000) \div 100, ((x % 1000) \div 10) % 10, x % 10>>)]

\* read_csv of a float column.
ParseFloat(t) ==
    FromDigits(t.int) * 1000 + FromDigits(t.frac) * 10 ^ (3 - Len(t.frac))

\* to_csv of a midnight Timestamp: "2025-06-20".
FormatDate(s) == <<2025, MonthOf(s), DayOf(s)>>

\* pd.to_datetime of the expiry column.
ParseDate(t) == SerialOf(t[2], t[3])

\* df[cols].to_csv(index=False): one line of text per row.
to_csv(df) ==
    [k \in 1..Len(df) |->
        [expiry |-> FormatDate(df[k].expiry),
         spot |-> FormatFloat(df[k].spot),
         strike |-> FormatFloat(df[k].strike),
         bid |-> FormatFloat(df[k].bid),
         ask |-> FormatFloat(df[k].ask),
         iv |-> FormatFloat(df[k].iv),
         type |-> df[k].type]]

\* utils.data_frame_from_blob: read_csv, then expiry to datetime and strike
\* to float.
data_frame_from_blob(text) ==
    [k \in 1..Len(text) |->
        [expiry |-> ParseDate(text[k].expiry),
         spot |-> ParseFloat(text[k].spot),
         strike |-> ParseFloat(text[k].strike),
         bid |-> ParseFloat(text[k].bid),
         ask |-> ParseFloat(text[k].ask),
         iv |-> ParseFloat(text[k].iv),
         type |-> text[k].type]]

\* Mutant of blob_exists: no blob is ever found.
blob_exists_never(blob) == FALSE

\* utils.blob_exists.
blob_exists(blob) == blob # << >>

---------------------------------------------------------------------------
\* The filter.

Abs(x) == IF x < 0 THEN -x ELSE x

\* sort_values: ascending in the keys (keys[k] is the key of row k), rows of
\* equal key in their order.
SortByKeys(df, keys) ==
    LET pos(k) == 1 + Cardinality({ h \in 1..Len(df) :
                        \/ keys[h] < keys[k]
                        \/ keys[h] = keys[k] /\ h < k })
    IN  [p \in 1..Len(df) |-> df[CHOOSE k \in 1..Len(df) : pos(k) = p]]

\* groupby("expiry").head(n): the first n rows of every expiry, in order.
GroupHead(df, n) ==
    LET rank(k) == Cardinality({ h \in 1..k : df[h].expiry = df[k].expiry })
        keep == { k \in 1..Len(df) : rank(k) <= n }
        idx == SortedSeq(keep)
    IN  [k \in 1..Len(idx) |-> df[idx[k]]]

HeadN == 10

\* Lines 139-146: the third Fridays among the expiries, on or after today.
FutureStd(df, day) ==
    LET third_fridays == SortedSeq({ dt \in { df[k].expiry : k \in 1..Len(df) } :
                                       is_third_friday(dt) })
    IN  SelectSeq(third_fridays, LAMBDA dt : dt >= day)

\* Lines 152-163: the calls at those expiries, the 10 nearest the spot of
\* each expiry, by expiry.
NearAtm(df, future_std) ==
    LET in_std(r) == \E k \in 1..Len(future_std) : future_std[k] = r.expiry
        df_next_monthly == SelectSeq(df, LAMBDA r : in_std(r) /\ r.type = "C")
        atm_diff == [k \in 1..Len(df_next_monthly) |->
                        Abs(df_next_monthly[k].strike - df_next_monthly[k].spot)]
        heads == GroupHead(SortByKeys(df_next_monthly, atm_diff), HeadN)
    IN  SortByKeys(heads, [k \in 1..Len(heads) |-> heads[k].expiry])

\* utils.upload_filtered_options: [df, blob], df = << >> standing for None.
upload_filtered_options(raw_options, day, blob) ==
    IF raw_options = << >> THEN [df |-> << >>, blob |-> blob]
    ELSE LET future_std == FutureStd(raw_options, day)
         IN  IF future_std = << >> THEN [df |-> << >>, blob |-> blob]
             ELSE LET df_near_atm == NearAtm(raw_options, future_std)
                  IN  IF Len(df_near_atm) > 0
                      THEN [df |-> df_near_atm, blob |-> to_csv(df_near_atm)]
                      ELSE [df |-> << >>, blob |-> blob]

\* utils.download_and_upload_raw_options: [df, blob], df = << >> standing
\* for None (the fetch raised, or returned no rows).
download_and_upload_raw_options(blob) ==
    IF blob_exists(blob) THEN [df |-> data_frame_from_blob(blob), blob |-> blob]
    ELSE IF feed.raises THEN [df |-> << >>, blob |-> blob]
    ELSE IF Len(feed.rows) > 0 THEN [df |-> feed.rows, blob |-> to_csv(feed.rows)]
    ELSE [df |-> << >>, blob |-> blob]

\* get_option_data, lines 26-30: the stored frame; spot is assigned from
\* the strike column.
StoredFrame(blob) ==
    LET df == data_frame_from_blob(blob)
    IN  [k \in 1..Len(df) |-> [df[k] EXCEPT !.spot = df[k].strike]]

---------------------------------------------------------------------------
\* The option-data service as a state machine.

MaxStrikes == 11
MaxRequests == 2

CandidateExpiries == {164, 171, 198, 199}
Clocks == {152, 171, 172}

\* A chain as the feed lists it: per expiry, calls then puts, strikes
\* ascending from 98.0 in steps of 1.0 around a spot of 103.25.
Chain(expiries, n) ==
    LET es == SortedSeq(expiries)
        row(k) ==
            LET e == es[((k - 1) \div (2 * n)) + 1]
                t == IF ((k - 1) \div n) % 2 = 0 THEN "C" ELSE "P"
                i == (k - 1) % n
            IN  [expiry |-> e, spot |-> 103250, strike |-> 98000 + 1000 * i,
                 bid |-> 1250 + 10 * i, ask |-> 1500 + 10 * i, iv |-> 215 + i,
                 type |-> t]
    IN  [k \in 1..(Len(es) * 2 * n) |-> row(k)]

InitOptionData ==
    /\ \E expiries \in SUBSET CandidateExpiries, n \in 0..MaxStrikes,
          raises \in BOOLEAN :
          feed = [raises |-> raises, rows |-> Chain(expiries, n)]
    /\ clock \in Clocks
    /\ blobs = [raw |-> << >>, filtered |-> << >>]
    /\ responses = << >>
    /\ pc = "idle"
    /\ err = "none"
    /\ quotes = << >>
    /\ n_points = NPoints
    /\ ql_today = 152
    /\ unique_expiries = << >>
    /\ unique_strikes = << >>
    /\ solved_matrix = << >>
    /\ vol_matrix = << >>
    /\ row_i = 0
    /\ surface = << >>
    /\ date_range = << >>
    /\ n_queries = 0
    /\ variant = "downloader_trigger"
    /\ container = << >>
    /\ container0 = << >>
    /\ ticker_i = 0
    /\ events = << >>

\* get_option_data, lines 25-33: the filtered blob of the day exists.
GetOptionDataStored ==
    /\ Len(responses) < MaxRequests
    /\ blob_exists(blobs.filtered)
    /\ responses' = Append(responses,
                           [path |-> "stored", raised |-> FALSE,
                            df |-> StoredFrame(blobs.filtered)])
    /\ UNCHANGED <<feed, clock, blobs>>
    /\ UNCHANGED <<runVars, timerVars>>

\* get_option_data, lines 34-48: download, filter, upload; an exception
\* when the filter gives nothing.
GetOptionDataFresh ==
    /\ Len(responses) < MaxRequests
    /\ ~blob_exists(blobs.filtered)
    /\ LET raw == download_and_upload_raw_options(blobs.raw)
           filtered == upload_filtered_options(raw.df, clock, blobs.filtered)
       IN  /\ blobs' = [raw |-> raw.blob, filtered |-> filtered.blob]
           /\ responses' = Append(responses,
                                  [path |-> "fresh", raised |-> filtered.df = << >>,
                                   df |-> filtered.df])
    /\ UNCHANGED <<feed, clock>>
    /\ UNCHANGED <<runVars, timerVars>>

NextOptionData ==
    \/ GetOptionDataStored
    \/ GetOptionDataFresh

SpecOptionData == InitOptionData /\ [][NextOptionData]_vars

---------------------------------------------------------------------------
\* The timer-triggered download as a state machine.

MaxTickers == 3

\* main, line 27.
tickers == <<"AAPL", "GOOGL", "MSFT", "TSLA", "AMZN", "NVDA">>

\* The list, cut to its first MaxTickers tickers.
Tickers == SubSeq(tickers, 1, MaxTickers)

\* The two trigger modules: downloader_trigger with utils, and
\* DownloaderTrigger with its own download_and_upload_raw_options.
Variants == {"downloader_trigger", "DownloaderTrigger"}

\* Blob names: ticker, kind and the day of datetime.now().
get_filtered_blob_name(ticker, date) == <<ticker, "filtered_options", date>>

get_raw_blob_name(ticker, date) == <<ticker, "raw_options", date>>

\* The text of a blob of the container, << >> when there is none.
Contents(c, name) == IF name \in DOMAIN c THEN c[name] ELSE << >>

\* container_client.upload_blob(name, data, overwrite=True).
upload_blob(c, name, data) ==
    [n \in DOMAIN c \cup {name} |-> IF n = name THEN data ELSE c[n]]

\* What fetch(ticker) gives: an exception (the request or the parsing
\* fails), no rows, a chain at the third Friday 2025-06-20, a chain at
\* 2025-06-13, which is no third Friday.
Fetches ==
    { [raises |-> TRUE, rows |-> << >>],
      [raises |-> FALSE, rows |-> << >>],
      [raises |-> FALSE, rows |-> Chain({171}, 1)],
      [raises |-> FALSE, rows |-> Chain({164}, 1)] }

\* What an upload_blob call does: it stores the blob, it raises and stores
\* nothing, or it raises after the blob was stored.
Uploads == {"stored", "raised", "stored_raised"}

\* Mutant of download_and_upload_raw_options_of: the frame is returned
\* although the upload raised.
download_and_upload_raw_options_of_unguarded(v, blob, fetched, upload) ==
    IF blob_exists(blob)
    THEN [df |-> data_frame_from_blob(blob), blob |-> blob,
          fetched |-> FALSE, raised |-> FALSE, uploaded |-> FALSE]
    ELSE IF fetched.raises
    THEN [df |-> << >>, blob |-> blob,
          fetched |-> TRUE, raised |-> TRUE, uploaded |-> FALSE]
    ELSE IF Len(fetched.rows) > 0
    THEN [df |-> fetched.rows,
          blob |-> IF upload = "raised" THEN blob ELSE to_csv(fetched.rows),
          fetched |-> TRUE, raised |-> upload # "stored",
          uploaded |-> upload # "raised"]
    ELSE [df |-> << >>, blob |-> blob,
          fetched |-> TRUE, raised |-> FALSE, uploaded |-> FALSE]

\* download_and_upload_raw_options of the module v, on the text of the raw
\* blob of the day, with what fetch and upload_blob do as inputs.  The
\* result: the frame returned (<< >> for None), the raw blob afterwards,
\* whether fetch was called, whether an exception was caught, whether a
\* blob was stored.  DownloaderTrigger returns None after every fetch.
download_and_upload_raw_options_of(v, blob, fetched, upload) ==
    IF blob_exists(blob)
    THEN [df |-> data_frame_from_blob(blob), blob |-> blob,
          fetched |-> FALSE, raised |-> FALSE, uploaded |-> FALSE]
    ELSE IF fetched.raises
    THEN [df |-> << >>, blob |-> blob,
          fetched |-> TRUE, raised |-> TRUE, uploaded |-> FALSE]
    ELSE IF Len(fetched.rows) > 0
    THEN IF upload = "stored"
         THEN [df |-> IF v = "downloader_trigger" THEN fetched.rows ELSE << >>,
               blob |-> to_csv(fetched.rows),
               fetched |-> TRUE, raised |-> FALSE, uploaded |-> TRUE]
         ELSE [df |-> << >>,
               blob |-> IF upload = "raised" THEN blob ELSE to_csv(fetched.rows),
               fetched |-> TRUE, raised |-> TRUE,
               uploaded |-> upload # "raised"]
    ELSE [df |-> << >>, blob |-> blob,
          fetched |-> TRUE, raised |-> FALSE, uploaded |-> FALSE]

InitTimer ==
    /\ variant \in Variants
    /\ pc = "timer_idle"
    /\ clock = 152
    /\ container = << >>
    /\ container0 = << >>
    /\ ticker_i = 0
    /\ events = << >>
    /\ feed = [raises |-> FALSE, rows |-> << >>]
    /\ blobs = [raw |-> << >>, filtered |-> << >>]
    /\ responses = << >>
    /\ err = "none"
    /\ quotes = << >>
    /\ n_points = NPoints
    /\ ql_today = 152
    /\ unique_expiries = << >>
    /\ unique_strikes = << >>
    /\ solved_matrix = << >>
    /\ vol_matrix = << >>
    /\ row_i = 0
    /\ surface = << >>
    /\ date_range = << >>
    /\ n_queries = 0

\* main up to the loop: the timer fires.
TimerStart ==
    /\ pc = "timer_idle"
    /\ pc' = "timer_loop"
    /\ err' = "none"
    /\ ticker_i' = 1
    /\ events' = << >>
    /\ container0' = container
    /\ UNCHANGED <<variant, container>>
    /\ UNCHANGED storeVars
    /\ UNCHANGED <<quotes, n_points, ql_today, unique_expiries, unique_strikes,
                   solved_matrix, vol_matrix, row_i, surface, date_range,
                   n_queries>>

\* One iteration of the loop over the tickers.  A ticker whose filtered
\* blob of the day exists is skipped; otherwise the raw options are
\* downloaded (or read from the raw blob), filtered and uploaded.  The
\* upload of the filtered blob is under no try: when it raises, main ends.
TimerTicker ==
    /\ pc = "timer_loop"
    /\ ticker_i <= Len(Tickers)
    /\ LET ticker == Tickers[ticker_i]
           filtered_blob_name == get_filtered_blob_name(ticker, clock)
           raw_blob_name == get_raw_blob_name(ticker, clock)
       IN  IF blob_exists(Contents(container, filtered_blob_name))
           THEN /\ events' = Append(events,
                        [ticker |-> ticker, skipped |-> TRUE, fetched |-> FALSE,
                         raised |-> FALSE, raw_options |-> << >>,
                         raw_uploaded |-> FALSE, filtered_uploaded |-> FALSE,
                         aborted |-> FALSE])
                /\ ticker_i' = ticker_i + 1
                /\ UNCHANGED <<container, pc, err>>
           ELSE LET raw_blob == Contents(container, raw_blob_name)
                    \* fetch is called when there is no raw blob, and
                    \* upload_blob when the fetch gave rows.
                    fetches == IF blob_exists(raw_blob)
                               THEN {[raises |-> FALSE, rows |-> << >>]}
                               ELSE Fetches
                    raw_uploads(fetched) ==
                        IF ~blob_exists(raw_blob) /\ Len(fetched.rows) > 0
                        THEN Uploads ELSE {"stored"}
                IN  \E fetched \in fetches :
                    \E raw_upload \in raw_uploads(fetched) :
                    LET raw == download_and_upload_raw_options_of(
                                   variant, raw_blob, fetched, raw_upload)
                        filtered == upload_filtered_options(raw.df, clock, << >>)
                        uploading == filtered.df # << >>
                        c1 == IF raw.uploaded
                              THEN upload_blob(container, raw_blob_name, raw.blob)
                              ELSE container
                    IN  \E filtered_upload \in
                               IF uploading THEN Uploads ELSE {"stored"} :
                        LET aborted == uploading /\ filtered_upload # "stored"
                            stored == uploading /\ filtered_upload # "raised"
                        IN  /\ container' =
                                  IF stored
                                  THEN upload_blob(c1, filtered_blob_name,
                                                   filtered.blob)
                                  ELSE c1
                            /\ events' = Append(events,
                                  [ticker |-> ticker, skipped |-> FALSE,
                                   fetched |-> raw.fetched, raised |-> raw.raised,
                                   raw_options |-> raw.df,
                                   raw_uploaded |-> raw.uploaded,
                                   filtered_uploaded |-> stored,
                                   aborted |-> aborted])
                            /\ IF aborted
                               THEN /\ pc' = "timer_idle"
                                    /\ err' = "Exception"
                                    /\ ticker_i' = ticker_i
                               ELSE /\ pc' = pc
                                    /\ err' = err
                                    /\ ticker_i' = ticker_i + 1
    /\ UNCHANGED <<variant, container0>>
    /\ UNCHANGED storeVars
    /\ UNCHANGED <<quotes, n_points, ql_today, unique_expiries, unique_strikes,
                   solved_matrix, vol_matrix, row_i, surface, date_range,
                   n_queries>>

\* The loop is over: main returns.
TimerEnd ==
    /\ pc = "timer_loop"
    /\ ticker_i > Len(Tickers)
    /\ pc' = "timer_idle"
    /\ UNCHANGED <<err, quotes, n_points, ql_today, unique_expiries,
                   unique_strikes, solved_matrix, vol_matrix, row_i, surface,
                   date_range, n_queries>>
    /\ UNCHANGED <<storeVars, timerVars>>

NextTimer ==
    \/ TimerStart
    \/ TimerTicker
    \/ TimerEnd

SpecTimer == InitTimer /\ [][NextTimer]_vars

---------------------------------------------------------------------------
\* Vocabulary of the properties.

\* The state at line 112, the solve loop just over, and the state at line
\* 130, the repair loop just over; the grid is not written after line 128.
AfterSolve == pc = "repair" /\ row_i = 1

AfterRepair == pc = "matrix"

Cells(m) == { <<i, j>> : i \in 1..Len(m), j \in 1..Len(unique_strikes) }

HasNaN(m) == \E c \in Cells(m) : IsNaN(m[c[1]][c[2]])

HasValue(m) == \E c \in Cells(m) : ~IsNaN(m[c[1]][c[2]])

RowAllNaN(m, i) == \A j \in 1..Len(m[i]) : IsNaN(m[i][j])

Remove(s, k) == [i \in 1..(Len(s) - 1) |-> IF i < k THEN s[i] ELSE s[i + 1]]

IndexOf(s, x) == CHOOSE i \in 1..Len(s) : s[i] = x

\* Quote k is the one its cell is solved from.
Selected(k) == k = MinOf(Matches(quotes, quotes[k].expiry, quotes[k].strike))

SolverFails(k) ==
    ImpliedVolatility(quotes[k].type, quotes[k].strike, quotes[1].spot,
                      quotes[k].bid + quotes[k].ask).raised

\* The value the grid g, built from data, holds at (expiry, strike).
CellAt(g, data, exp, K) ==
    g[IndexOf(UniqueExpiries(data), exp)][IndexOf(UniqueStrikes(data), K)]

---------------------------------------------------------------------------
\* C1: when at least one cell was solved, the grid after the solve step and
\* the repair of every row holds no NaN, rows that were all NaN included.
C1_NoMissingAfterRepair ==
    (AfterRepair /\ HasValue(solved_matrix)) => ~HasNaN(vol_matrix)

C1_Witness ==
    /\ pc = "matrix"
    /\ HasValue(solved_matrix)
    /\ \E i \in 1..Len(solved_matrix) : RowAllNaN(solved_matrix, i)
    /\ ~HasNaN(vol_matrix)

\* C2: every cell of a row that was all NaN after the solve step holds the
\* median of the cells that were non-NaN before any fill.
C2_PreFillMedian ==
    AfterRepair =>
        \A i \in 1..Len(solved_matrix) :
            RowAllNaN(solved_matrix, i) =>
                \A j \in 1..Len(vol_matrix[i]) :
                    vol_matrix[i][j] = NanMedian(solved_matrix)

\* C3: a grid that is all NaN after the solve step never reaches the
\* construction of the surface or the sample; the run ends in an empty-grid
\* error instead.
C3_EmptyGridRejected ==
    (pc # "solve" /\ ~HasValue(solved_matrix)) =>
        /\ pc \in {"repair", "error"}
        /\ pc = "error" => err = "EmptyGridError"

\* C4: in a row with a solved cell, a cell that was NaN holds after the
\* repair the nearest solved value at a lower strike index, and only when
\* there is none the nearest solved value at a higher strike index.
C4_NearestFill ==
    AfterRepair =>
        \A c \in Cells(solved_matrix) :
            LET row == solved_matrix[c[1]]
                lower == { k \in 1..(c[2] - 1) : ~IsNaN(row[k]) }
                higher == { k \in (c[2] + 1)..Len(row) : ~IsNaN(row[k]) }
            IN  (IsNaN(row[c[2]]) /\ ~RowAllNaN(solved_matrix, c[1])) =>
                    vol_matrix[c[1]][c[2]] =
                        IF lower # {} THEN row[MaxOf(lower)] ELSE row[MinOf(higher)]

C4_Witness ==
    /\ pc = "matrix"
    /\ Len(unique_strikes) = 3
    /\ \E i \in 1..Len(solved_matrix) :
          /\ ~IsNaN(solved_matrix[i][1])
          /\ IsNaN(solved_matrix[i][2])
          /\ ~IsNaN(solved_matrix[i][3])
          /\ solved_matrix[i][1] # solved_matrix[i][3]
          /\ vol_matrix[i][2] = solved_matrix[i][1]
    /\ \E i \in 1..Len(solved_matrix) :
          /\ IsNaN(solved_matrix[i][1])
          /\ ~IsNaN(solved_matrix[i][2])
          /\ vol_matrix[i][1] = solved_matrix[i][2]

\* C5: a selected quote whose solve fails leaves its cell NaN before the
\* repair, the build runs on to the end of the repair, and every other cell
\* of the built grid holds the value it holds when the build runs on the
\* quotes without that quote (and without the later quotes of its cell,
\* which are never solved).
C5_FailedQuoteAsAbsent ==
    AfterRepair =>
        \A k \in 1..Len(quotes) :
            (Selected(k) /\ SolverFails(k)) =>
                LET rest == SelectSeq(quotes, LAMBDA q :
                                q.expiry # quotes[k].expiry \/ q.strike # quotes[k].strike)
                    without == Build(rest)
                IN  /\ IsNaN(CellAt(solved_matrix, quotes, quotes[k].expiry,
                                    quotes[k].strike))
                    /\ \A i \in 1..Len(UniqueExpiries(rest)) :
                       \A j \in 1..Len(UniqueStrikes(rest)) :
                          CellAt(vol_matrix, quotes, UniqueExpiries(rest)[i],
                                 UniqueStrikes(rest)[j]) = without[i][j]

C7_EvenDates ==
    LET n == n_points
        last == unique_expiries[Len(unique_expiries)]
        span == last - ql_today
    IN  (pc = "done" /\ n >= 2 /\ span >= 0) =>
            /\ Len(date_range) = n
            /\ date_range[1] = ql_today
            /\ date_range[n] = last
            /\ \A k \in 1..n :
                  LET off == date_range[k] - ql_today
                  IN  /\ off * (n - 1) <= (k - 1) * span
                      /\ (k - 1) * span < (off + 1) * (n - 1)
                      /\ ql_today <= date_range[k]
                      /\ date_range[k] <= last
            /\ \A k \in 1..(n - 1) : date_range[k] <= date_range[k + 1]

C7_Witness ==
    /\ pc = "done"
    /\ n_points = 4
    /\ unique_expiries[Len(unique_expiries)] - ql_today = 47
    /\ date_range = <<ql_today, ql_today + 15, ql_today + 31, ql_today + 47>>

FreshAnswers == { k \in 1..Len(responses) :
                    responses[k].path = "fresh" /\ ~responses[k].raised }

\* C9: the filter's output holds only calls of one expiry, the earliest
\* third Friday on or after the day among the expiries of the input, and of
\* the calls at that expiry the (at most) 10 nearest the spot.
C9_SingleNextExpiry ==
    \A a \in FreshAnswers :
        LET df == responses[a].df
            std == { feed.rows[k].expiry : k \in 1..Len(feed.rows) }
            next == MinOf({ dt \in std : is_third_friday(dt) /\ dt >= clock })
            calls == { k \in 1..Len(feed.rows) :
                         feed.rows[k].expiry = next /\ feed.rows[k].type = "C" }
            diff(r) == Abs(r.strike - r.spot)
            kept == { k \in calls : \E h \in 1..Len(df) : df[h] = feed.rows[k] }
        IN  /\ \A h \in 1..Len(df) : df[h].type = "C" /\ df[h].expiry = next
            /\ Len(df) = IF Cardinality(calls) < HeadN THEN Cardinality(calls) ELSE HeadN
            /\ Cardinality(kept) = Len(df)
            /\ \A k \in kept : \A c \in calls \ kept :
                  diff(feed.rows[k]) <= diff(feed.rows[c])

\* C10: the records get_option_data returns from the stored blob are the
\* records that were written, column by column, and so the records the
\* fresh download returned.
C10_RoundTrip ==
    \A a \in FreshAnswers :
        \A b \in 1..Len(responses) :
            (responses[b].path = "stored" /\ a < b) =>
                /\ Len(responses[b].df) = Len(responses[a].df)
                /\ \A k \in 1..Len(responses[b].df) :
                      LET r == responses[b].df[k]
                          w == responses[a].df[k]
                      IN  /\ r.expiry = w.expiry
                          /\ r.spot = w.spot
                          /\ r.strike = w.strike
                          /\ r.bid = w.bid
                          /\ r.ask = w.ask
                          /\ r.iv = w.iv
                          /\ r.type = w.type

\* C11: the repair of a grid that holds no NaN after the solve step leaves
\* every cell as it was; and the repair applied once more to a repaired grid
\* without NaN gives the same grid.
C11_RepairNoOp ==
    AfterRepair =>
        /\ ~HasNaN(solved_matrix) => vol_matrix = solved_matrix
        /\ ~HasNaN(vol_matrix) => RepairFrom(vol_matrix, 1) = vol_matrix

C11_Witness ==
    /\ pc = "matrix"
    /\ Len(unique_strikes) >= 2
    /\ ~HasNaN(solved_matrix)
    /\ \E i \in 1..Len(solved_matrix) : solved_matrix[i][1] # solved_matrix[i][2]
    /\ vol_matrix = solved_matrix
    /\ RepairFrom(vol_matrix, 1) = vol_matrix

\* C13: a cell that holds a solved volatility after the solve step holds the
\* same value during and after the repair, whatever the rest of the grid.
C13_SolvedCellsKept ==
    pc \in {"repair", "matrix"} =>
        \A c \in Cells(solved_matrix) :
            ~IsNaN(solved_matrix[c[1]][c[2]]) =>
                vol_matrix[c[1]][c[2]] = solved_matrix[c[1]][c[2]]

C13_Witness ==
    /\ pc = "matrix"
    /\ Len(unique_strikes) = 3
    /\ vol_matrix # solved_matrix
    /\ \E i \in 1..Len(solved_matrix) :
          /\ ~IsNaN(solved_matrix[i][1])
          /\ IsNaN(solved_matrix[i][2])
          /\ ~IsNaN(solved_matrix[i][3])
          /\ solved_matrix[i][1] # solved_matrix[i][3]
          /\ vol_matrix[i][1] = solved_matrix[i][1]
          /\ vol_matrix[i][3] = solved_matrix[i][3]

\* The blobs of a ticker by the names of the day.
FilteredName(ticker) == get_filtered_blob_name(ticker, clock)

RawName(ticker) == get_raw_blob_name(ticker, clock)

C14_FetchErrorContained ==
    \A k \in 1..Len(events) :
        events[k].raised =>
            /\ ~events[k].aborted
            /\ ~events[k].filtered_uploaded
            /\ FilteredName(events[k].ticker) \notin DOMAIN container
            /\ k < Len(Tickers) =>
                  IF k < Len(events)
                  THEN events[k + 1].ticker = Tickers[k + 1]
                  ELSE pc = "timer_loop" /\ ticker_i = k + 1

C14_Witness ==
    /\ pc = "timer_idle"
    /\ err = "none"
    /\ Len(events) = Len(Tickers)
    /\ events[1].raised
    /\ events[1].raw_uploaded
    /\ FilteredName(Tickers[1]) \notin DOMAIN container
    /\ \E k \in 2..Len(events) : events[k].raised /\ ~events[k].raw_uploaded
    /\ \E k \in 2..Len(events) : events[k].filtered_uploaded

====
